---- MODULE Spec2Model ----
(***************************************************************************)
(* Model of cdc_tool: the design graph builder (parser.py, _DesignBuilder)  *)
(* walking a syntax tree, and the clock-domain analysis (analyzer.py) run   *)
(* on the finished DesignGraph.                                             *)
(*                                                                         *)
(* Python values:                                                          *)
(*   str              a TLA+ string; Optional[str] uses None               *)
(*   Optional[int],   Nothing (<<>>) or Just(v) (<<v>>)                     *)
(*   Optional[List]                                                        *)
(*   dict (ordered)   a sequence of its values in insertion order, when    *)
(*                    the order is observable (modules, registers); a      *)
(*                    function on its key set otherwise (drivers)          *)
(*   AST node         a record with a type field (the class name)          *)
(***************************************************************************)
EXTENDS Integers, Sequences, FiniteSets, TLC

VARIABLES modules, module_stack, clock_stack, pc, report, writers,
          tree, first, result

\* the program's state
prog == <<modules, module_stack, clock_stack, pc, report>>

\* what the specifications of single claims keep beside it: the tree a run
\* has walked and the outcome of the run before it (SpecRuns), the value the
\* last query of the report returned (SpecReport)
others == <<tree, first, result>>

aux == <<writers, tree, first, result>>

vars == <<modules, module_stack, clock_stack, pc, report, writers,
          tree, first, result>>

-----------------------------------------------------------------------------
(* Bounds of the explored syntax trees. *)

\* ModuleDef nodes of the tree
MaxModules == 1
\* ModuleDef nodes of the tree (specification SpecTwo)
MaxModulesTwo == 2
\* nesting depth of Always nodes
MaxClockDepth == 1
\* registers declared in the whole design
MaxRegs == 3
\* (stage, source name) pairs recorded in the whole design
MaxDriverEntries == 2
\* largest bit index looked for when a stage key is read back
MaxIndex == 9
\* entries of a sensitivity list (specification SpecClock)
MaxSensLen == 2
\* clocks remembered per register by the history variable writers
MaxWriters == 2
\* crossings of a report built by hand (specification SpecReport)
MaxCrossings == 2
\* nodes and calls of a run, analyze_design included (specification SpecRuns)
MaxTree == 7
\* (stage, source name) pairs recorded in the whole design (specification
\* SpecDrivers)
MaxDriverEntriesDrivers == 3
\* nesting depth of Always nodes (specification SpecNest)
MaxClockDepthNest == 2

-----------------------------------------------------------------------------
(* Python None and Optional values. *)

None == "<None>"
Nothing == <<>>
Just(v) == <<v>>

-----------------------------------------------------------------------------
(* Syntax tree nodes (pyverilog.vparser.ast). *)

NoneNode == [type |-> "NoneType"]
Identifier(n) == [type |-> "Identifier", name |-> n]
\* value is the literal's text, one character per element
IntConst(v) == [type |-> "IntConst", value |-> v]
Pointer(v, p) == [type |-> "Pointer", var |-> v, ptr |-> p]
Concat(l) == [type |-> "Concat", list |-> l]
Plus(l, r) == [type |-> "Plus", left |-> l, right |-> r]
Lvalue(v) == [type |-> "Lvalue", var |-> v]
Width(m, l) == [type |-> "Width", msb |-> m, lsb |-> l]
Reg(n, w) == [type |-> "Reg", name |-> n, width |-> w]
Wire(n) == [type |-> "Wire", name |-> n]
Input(n) == [type |-> "Input", name |-> n]
Sens(s, t) == [type |-> "Sens", sig |-> s, type_ |-> t]
SensList(l) == [type |-> "SensList", list |-> l]

-----------------------------------------------------------------------------
(* Text. TLC strings are atoms, so the functions that look inside a string  *)
(* work on its characters.                                                  *)

\* the characters of the signal names that occur in sensitivity lists
Chars(name) ==
    CASE name = "clk" -> <<"c", "l", "k">>
      [] name = "clkA" -> <<"c", "l", "k", "A">>
      [] name = "clkB" -> <<"c", "l", "k", "B">>
      [] name = "CLKA" -> <<"C", "L", "K", "A">>
      [] name = "rst_n" -> <<"r", "s", "t", "_", "n">>
      [] name = "ARESET" -> <<"A", "R", "E", "S", "E", "T">>
      [] name = "clr" -> <<"c", "l", "r">>
      [] name = "first" -> <<"f", "i", "r", "s", "t">>
      [] name = "en" -> <<"e", "n">>

\* str.lower on one character
LowerChar(c) ==
    CASE c = "A" -> "a"
      [] c = "B" -> "b"
      [] c = "C" -> "c"
      [] c = "D" -> "d"
      [] c = "E" -> "e"
      [] c = "H" -> "h"
      [] c = "K" -> "k"
      [] c = "L" -> "l"
      [] c = "O" -> "o"
      [] c = "R" -> "r"
      [] c = "S" -> "s"
      [] c = "T" -> "t"
      [] OTHER -> c

lower(s) == [i \in 1..Len(s) |-> LowerChar(s[i])]

\* token in text
IsSubstring(token, text) ==
    \E off \in 0..(Len(text) - Len(token)) :
        \A i \in 1..Len(token) : text[off + i] = token[i]

\* value of one digit character in int(digits, base); -1 when it is no digit
DigitValue(c) ==
    CASE c = "0" -> 0
      [] c = "1" -> 1
      [] c = "2" -> 2
      [] c = "3" -> 3
      [] c = "4" -> 4
      [] c = "5" -> 5
      [] c = "6" -> 6
      [] c = "7" -> 7
      [] c = "8" -> 8
      [] c = "9" -> 9
      [] c = "a" -> 10
      [] c = "f" -> 15
      [] c = "F" -> 15
      [] OTHER -> -1

RECURSIVE PositionalValue(_, _)
PositionalValue(digits, base) ==
    IF digits = <<>> THEN 0
    ELSE PositionalValue(SubSeq(digits, 1, Len(digits) - 1), base) * base
         + DigitValue(digits[Len(digits)])

\* int(digits, base) for base in {2, 8, 10, 16} and unsigned digit text;
\* Nothing stands for ValueError
ParseInt(digits, base) ==
    IF /\ digits # <<>>
       /\ \A i \in 1..Len(digits) :
            DigitValue(digits[i]) >= 0 /\ DigitValue(digits[i]) < base
    THEN Just(PositionalValue(digits, base))
    ELSE Nothing

\* int(value, 0) for unsigned text: decimal without a leading zero, or 0x hex
ParseIntAuto(value) ==
    IF Len(value) >= 2 /\ value[1] = "0" /\ value[2] \in {"x", "X"}
    THEN ParseInt(SubSeq(value, 3, Len(value)), 16)
    ELSE IF Len(value) >= 2 /\ value[1] = "0"
              /\ \E i \in 1..Len(value) : value[i] # "0"
         THEN Nothing
         ELSE ParseInt(value, 10)

\* f"{base}[{index}]"
Stage(base, index) == base \o "[" \o ToString(index) \o "]"

-----------------------------------------------------------------------------
(* parser.py: module-level helpers. *)

RemoveUnderscores(value) == SelectSeq(value, LAMBDA c : c # "_")

\* index of the first "'" of value, 0 if there is none
QuoteIndex(value) ==
    IF \E i \in 1..Len(value) : value[i] = "'"
    THEN CHOOSE i \in 1..Len(value) :
            value[i] = "'" /\ \A j \in 1..(i - 1) : value[j] # "'"
    ELSE 0

BaseOf(c) ==
    CASE c = "b" -> 2
      [] c = "h" -> 16
      [] c = "o" -> 8
      [] c = "d" -> 10
      [] OTHER -> 0

_evaluate_int(node) ==
    IF node.type # "IntConst" THEN Nothing
    ELSE
      LET value == RemoveUnderscores(node.value)
          q == QuoteIndex(value)
      IN  IF q # 0
          THEN LET literal == SubSeq(value, q + 1, Len(value))
               IN  IF literal = <<>> THEN Nothing
                   ELSE LET base_char == LowerChar(literal[1])
                            known == BaseOf(base_char) # 0
                            base == IF known THEN BaseOf(base_char) ELSE 10
                            rest == IF known THEN Tail(literal) ELSE literal
                            digits == IF rest = <<>> THEN <<"0">> ELSE rest
                        IN  ParseInt(digits, base)
          ELSE ParseIntAuto(value)

\* list(range(msb, lsb + step, step))
_bit_indices_from_width(width) ==
    IF width.type = "NoneType" THEN Nothing
    ELSE
      LET msb == _evaluate_int(width.msb)
          lsb == _evaluate_int(width.lsb)
      IN  IF msb = Nothing \/ lsb = Nothing THEN Nothing
          ELSE LET m == msb[1]
                   l == lsb[1]
                   step == IF l >= m THEN 1 ELSE -1
                   n == (IF l >= m THEN l - m ELSE m - l) + 1
               IN  Just([k \in 1..n |-> m + step * (k - 1)])

RECURSIVE _flatten_concat(_)
RECURSIVE FlattenList(_)
FlattenList(list) ==
    IF list = <<>> THEN <<>>
    ELSE _flatten_concat(Head(list)) \o FlattenList(Tail(list))

_flatten_concat(node) ==
    IF node.type = "Concat" THEN FlattenList(node.list) ELSE <<node>>

\* Node.children() of the expression nodes
children(node) ==
    CASE node.type = "Concat" -> node.list
      [] node.type = "Plus" -> <<node.left, node.right>>
      [] node.type = "Pointer" -> <<node.var, node.ptr>>
      [] node.type = "Lvalue" -> <<node.var>>
      [] OTHER -> <<>>

\* _IdentifierCollector.collect: visit_Identifier, visit_Pointer, generic_visit
RECURSIVE collect(_)
RECURSIVE CollectAll(_)
CollectAll(list) ==
    IF list = <<>> THEN {}
    ELSE collect(Head(list)) \cup CollectAll(Tail(list))

collect(node) ==
    CASE node.type = "Identifier" -> {node.name}
      [] node.type = "Pointer" ->
            (IF node.var.type = "Identifier"
             THEN LET index == _evaluate_int(node.ptr)
                  IN  IF index # Nothing
                      THEN {Stage(node.var.name, index[1])}
                      ELSE {node.var.name}
             ELSE collect(node.var))
            \cup collect(node.ptr)
      [] OTHER -> CollectAll(children(node))

-----------------------------------------------------------------------------
(* parser.py: Register, Module. *)

Register(name, module) ==
    [name |-> name, module |-> module, clock |-> None,
     bit_indices |-> Nothing, drivers |-> <<>>]

\* record_drivers as self.drivers[stage] = set(sources)
RecordDriversReplacing(register, stage, sources) ==
    [register EXCEPT !.drivers =
        [k \in (DOMAIN register.drivers) \cup {stage} |->
            IF k = stage THEN sources ELSE register.drivers[k]]]

\* self.drivers.setdefault(stage, set()).update(sources)
record_drivers(register, stage, sources) ==
    LET old == register.drivers
        new == [k \in (DOMAIN old) \cup {stage} |->
                  IF k = stage
                  THEN (IF k \in DOMAIN old THEN old[k] ELSE {}) \cup sources
                  ELSE old[k]]
    IN  [register EXCEPT !.drivers = new]

Module(name) == [name |-> name, nets |-> {}, registers |-> <<>>]

\* module.registers.values() and module.registers.keys(), as sets
RegisterSet(mod) == {mod.registers[i] : i \in 1..Len(mod.registers)}

RegisterNames(mod) == {r.name : r \in RegisterSet(mod)}

\* position of the register called name in a registers dict, 0 if absent
RegIndex(registers, name) ==
    IF \E i \in 1..Len(registers) : registers[i].name = name
    THEN CHOOSE i \in 1..Len(registers) : registers[i].name = name
    ELSE 0

\* position of the module called name in a modules dict, 0 if absent
ModIndex(mods, name) ==
    IF \E i \in 1..Len(mods) : mods[i].name = name
    THEN CHOOSE i \in 1..Len(mods) : mods[i].name = name
    ELSE 0

\* d[key] = value on an insertion-ordered dict of modules
SetModule(mods, module) ==
    IF ModIndex(mods, module.name) # 0
    THEN [mods EXCEPT ![ModIndex(mods, module.name)] = module]
    ELSE Append(mods, module)

-----------------------------------------------------------------------------
(* parser.py: _DesignBuilder helpers. *)

\* self._module_stack[-1]
module == module_stack[Len(module_stack)]

\* current_clock as self._clock_stack[0] if self._clock_stack else None
CurrentClockOutermost ==
    IF clock_stack # <<>> THEN clock_stack[1] ELSE None

\* self._clock_stack[-1] if self._clock_stack else None
current_clock ==
    IF clock_stack # <<>> THEN clock_stack[Len(clock_stack)] ELSE None

ResetTokens ==
    << <<"r", "s", "t">>, <<"r", "e", "s", "e", "t">>,
       <<"a", "r", "e", "s", "e", "t">>, <<"s", "r", "s", "t">>,
       <<"c", "l", "r">> >>

_looks_like_reset(name) ==
    LET lowered == lower(Chars(name))
    IN  \E t \in 1..Len(ResetTokens) : IsSubstring(ResetTokens[t], lowered)

\* ExtractClockLoop returning the first edge entry, reset or not
RECURSIVE ExtractClockLoopFirstEdge(_, _)
ExtractClockLoopFirstEdge(list, candidates) ==
    IF list = <<>>
    THEN (IF candidates # <<>> THEN candidates[Len(candidates)] ELSE None)
    ELSE LET entry == Head(list)
         IN  IF entry.type # "Sens"
             THEN ExtractClockLoopFirstEdge(Tail(list), candidates)
             ELSE IF entry.type_ \notin {"posedge", "negedge"}
             THEN ExtractClockLoopFirstEdge(Tail(list), candidates)
             ELSE IF entry.sig.type # "Identifier"
             THEN ExtractClockLoopFirstEdge(Tail(list), candidates)
             ELSE entry.sig.name

\* the for loop of _extract_clock over sens.list, with its early return, and
\* the fall-back to candidates[-1]
RECURSIVE ExtractClockLoop(_, _)
ExtractClockLoop(list, candidates) ==
    IF list = <<>>
    THEN (IF candidates # <<>> THEN candidates[Len(candidates)] ELSE None)
    ELSE LET entry == Head(list)
         IN  IF entry.type # "Sens"
             THEN ExtractClockLoop(Tail(list), candidates)
             ELSE IF entry.type_ \notin {"posedge", "negedge"}
             THEN ExtractClockLoop(Tail(list), candidates)
             ELSE IF entry.sig.type # "Identifier"
             THEN ExtractClockLoop(Tail(list), candidates)
             ELSE IF ~_looks_like_reset(entry.sig.name)
             THEN entry.sig.name
             ELSE ExtractClockLoop(Tail(list),
                                   Append(candidates, entry.sig.name))

_extract_clock(sens) ==
    IF sens.type # "SensList" THEN None
    ELSE ExtractClockLoop(sens.list, <<>>)

\* a target is <<position of the register in self.module.registers, stage>>
_resolve_targets(mod, node) ==
    CASE node.type = "Pointer" ->
            IF node.var.type # "Identifier" THEN <<>>
            ELSE LET base == node.var.name
                     r == RegIndex(mod.registers, base)
                     index == _evaluate_int(node.ptr)
                 IN  IF r = 0 THEN <<>>
                     ELSE << <<r, IF index # Nothing
                                  THEN Stage(base, index[1])
                                  ELSE base>> >>
      [] node.type = "Identifier" ->
            LET r == RegIndex(mod.registers, node.name)
            IN  IF r = 0 THEN <<>> ELSE << <<r, node.name>> >>
      [] OTHER -> <<>>

\* _pair_targets_with_rhs comparing len(right.list), the unflattened element
\* count, with the width
PairTargetsUnflattened(mod, targets, right) ==
    IF Len(targets) # 1
    THEN [t \in 1..Len(targets) |-> <<targets[t][1], targets[t][2], right>>]
    ELSE
      LET r == targets[1][1]
          stage == targets[1][2]
          register == mod.registers[r]
      IN  IF /\ stage = register.name
             /\ register.bit_indices # Nothing
             /\ register.bit_indices[1] # <<>>
             /\ right.type = "Concat"
             /\ Len(right.list) = Len(register.bit_indices[1])
          THEN LET elements == _flatten_concat(right)
                   indices == register.bit_indices[1]
               IN  [k \in 1..Len(indices) |->
                      <<r, Stage(register.name, indices[k]), elements[k]>>]
          ELSE << <<r, stage, right>> >>

\* the (register, stage, expr) triples
_pair_targets_with_rhs(mod, targets, right) ==
    IF Len(targets) # 1
    THEN [t \in 1..Len(targets) |-> <<targets[t][1], targets[t][2], right>>]
    ELSE
      LET r == targets[1][1]
          stage == targets[1][2]
          register == mod.registers[r]
      IN  IF /\ stage = register.name
             /\ register.bit_indices # Nothing
             /\ register.bit_indices[1] # <<>>
             /\ right.type = "Concat"
             /\ Len(_flatten_concat(right)) = Len(register.bit_indices[1])
          THEN LET elements == _flatten_concat(right)
                   indices == register.bit_indices[1]
               IN  [k \in 1..Len(indices) |->
                      <<r, Stage(register.name, indices[k]), elements[k]>>]
          ELSE << <<r, stage, right>> >>

\* AssignOne without the test "register.clock is None": the last writer wins
AssignOneLastWriter(mod, clock, triple) ==
    LET r == triple[1]
        register == mod.registers[r]
        clocked ==
            IF clock # None
            THEN [register EXCEPT !.clock = clock]
            ELSE register
    IN  [mod EXCEPT !.registers[r] =
            record_drivers(clocked, triple[2], collect(triple[3]))]

\* one iteration of the for loop of _handle_assignment
AssignOne(mod, clock, triple) ==
    LET r == triple[1]
        register == mod.registers[r]
        clocked ==
            IF clock # None /\ register.clock = None
            THEN [register EXCEPT !.clock = clock]
            ELSE register
    IN  [mod EXCEPT !.registers[r] =
            record_drivers(clocked, triple[2], collect(triple[3]))]

RECURSIVE AssignAll(_, _, _)
AssignAll(mod, clock, triples) ==
    IF triples = <<>> THEN mod
    ELSE AssignAll(AssignOne(mod, clock, Head(triples)), clock, Tail(triples))

\* the module after self._handle_assignment(left, right)
_handle_assignment(mod, clock, left, right) ==
    IF left.type # "Lvalue" THEN mod
    ELSE LET targets == _resolve_targets(mod, left.var)
         IN  IF targets = <<>> THEN mod
             ELSE AssignAll(mod, clock,
                            _pair_targets_with_rhs(mod, targets, right))

\* one iteration of the for loop of visit_Decl
DeclOne(mod, decl) ==
    CASE decl.type = "Reg" ->
            LET have == RegIndex(mod.registers, decl.name)
                regs == IF have # 0 THEN mod.registers
                        ELSE Append(mod.registers,
                                    Register(decl.name, mod.name))
                r == RegIndex(regs, decl.name)
            IN  [mod EXCEPT !.registers =
                    [regs EXCEPT ![r].bit_indices =
                        _bit_indices_from_width(decl.width)]]
      [] decl.type = "Wire" -> [mod EXCEPT !.nets = @ \cup {decl.name}]
      [] OTHER -> mod

RECURSIVE DeclAll(_, _)
DeclAll(mod, list) ==
    IF list = <<>> THEN mod
    ELSE DeclAll(DeclOne(mod, Head(list)), Tail(list))

-----------------------------------------------------------------------------
(* analyzer.py. *)

ClockDomain(name, registers) == [name |-> name, registers |-> registers]

Crossing(mod, signal, register, source_domain, target_domain, safe, reason) ==
    [module |-> mod, signal |-> signal, register |-> register,
     source_domain |-> source_domain, target_domain |-> target_domain,
     safe |-> safe, reason |-> reason, rule |-> "unsafe_crossing"]

\* DesignGraph.iter_registers: the registers of every module, in dict order
RECURSIVE iter_registers(_)
iter_registers(mods) ==
    IF mods = <<>> THEN <<>>
    ELSE Head(mods).registers \o iter_registers(Tail(mods))

\* the for loop of derive_clock_domains without "if register.clock is None:
\* continue"
RECURSIVE DomainsLoopKeepNone(_, _)
DomainsLoopKeepNone(registers, domains) ==
    IF registers = <<>> THEN domains
    ELSE
      LET register == Head(registers)
      IN  DomainsLoopKeepNone(Tail(registers),
            [c \in (DOMAIN domains) \cup {register.clock} |->
               IF c = register.clock
               THEN ClockDomain(c,
                      (IF c \in DOMAIN domains
                       THEN domains[c].registers ELSE {})
                      \cup {register.name})
               ELSE domains[c]])

\* the for loop of derive_clock_domains
RECURSIVE DomainsLoop(_, _)
DomainsLoop(registers, domains) ==
    IF registers = <<>> THEN domains
    ELSE
      LET register == Head(registers)
      IN  IF register.clock = None
          THEN DomainsLoop(Tail(registers), domains)
          ELSE DomainsLoop(Tail(registers),
                 [c \in (DOMAIN domains) \cup {register.clock} |->
                    IF c = register.clock
                    THEN ClockDomain(c,
                           (IF c \in DOMAIN domains
                            THEN domains[c].registers ELSE {})
                           \cup {register.name})
                    ELSE domains[c]])

derive_clock_domains(design) == DomainsLoop(iter_registers(design), <<>>)

\* candidate.drivers == {register.name}: a dict compared with a set.
\* dict.__eq__ and set.__eq__ both return NotImplemented for the other type,
\* so == falls back to identity and is False whatever the two hold.
DictEqualsSet(d, s) == FALSE

\* register is mod.registers[r]; "candidate is register" compares positions
_is_synchronized(r, mod) ==
    \E c \in 1..Len(mod.registers) :
        /\ c # r
        /\ mod.registers[c].clock = mod.registers[r].clock
        /\ DictEqualsSet(mod.registers[c].drivers, {mod.registers[r].name})

\* decimal digits of a natural number, as code points
RECURSIVE DigitCodes(_)
DigitCodes(n) ==
    IF n < 10 THEN <<48 + n>>
    ELSE DigitCodes(n \div 10) \o <<48 + (n % 10)>>

\* code points of what follows the register's name in one of its stage keys:
\* nothing for the whole register, "[index]" for a bit
KeySuffix(name, key) ==
    IF key = name THEN <<>>
    ELSE LET i == CHOOSE i \in 0..MaxIndex : Stage(name, i) = key
         IN  <<91>> \o DigitCodes(i) \o <<93>>

\* str.__lt__ on code point sequences
LexLess(a, b) ==
    \/ Len(a) < Len(b) /\ \A i \in 1..Len(a) : a[i] = b[i]
    \/ \E i \in 1..(IF Len(a) < Len(b) THEN Len(a) ELSE Len(b)) :
          /\ a[i] < b[i]
          /\ \A j \in 1..(i - 1) : a[j] = b[j]

\* the keys in an order that differs from run to run: ascending in the first
\* run, descending in the one after it
RECURSIVE KeysInOrderOfRun(_, _)
KeysInOrderOfRun(name, keys) ==
    IF keys = {} THEN <<>>
    ELSE LET pick == CHOOSE k \in keys :
                \A o \in keys \ {k} :
                    IF first = Nothing
                    THEN LexLess(KeySuffix(name, k), KeySuffix(name, o))
                    ELSE LexLess(KeySuffix(name, o), KeySuffix(name, k))
         IN  <<pick>> \o KeysInOrderOfRun(name, keys \ {pick})

\* sorted(keys) for the stage keys of the register called name
RECURSIVE sorted(_, _)
sorted(name, keys) ==
    IF keys = {} THEN <<>>
    ELSE LET least == CHOOSE k \in keys :
                \A o \in keys \ {k} :
                    LexLess(KeySuffix(name, k), KeySuffix(name, o))
         IN  <<least>> \o sorted(name, keys \ {least})

\* ClassifySignal without "if source_domain == target_domain: continue"
ClassifySignalNoSkip(design, mod, r, signal) ==
    LET register == mod.registers[r]
        target_domain == register.clock
        regs == design[ModIndex(design, mod.name)].registers
        source_reg == RegIndex(regs, signal)
        source_domain ==
            IF source_reg # 0 THEN regs[source_reg].clock ELSE None
        synced == /\ source_domain # target_domain
                  /\ target_domain # None
                  /\ _is_synchronized(r, mod)
    IN  << Crossing(mod.name, signal, register.name,
                    source_domain, target_domain,
                    synced,
                    IF synced THEN "two-stage synchronizer"
                    ELSE IF source_domain = None
                         THEN "combinational path"
                         ELSE "async source") >>

\* the body of "for signal in sorted(register.drivers)": the Crossings it
\* appends (none or one)
\* ClassifySignal choosing the reason by target_domain instead of
\* source_domain
ClassifySignalReasonByTarget(design, mod, r, signal) ==
    LET register == mod.registers[r]
        target_domain == register.clock
        regs == design[ModIndex(design, mod.name)].registers
        source_reg == RegIndex(regs, signal)
        source_domain ==
            IF source_reg # 0 THEN regs[source_reg].clock ELSE None
        synced == /\ source_domain # target_domain
                  /\ target_domain # None
                  /\ _is_synchronized(r, mod)
    IN  IF source_domain = target_domain THEN <<>>
        ELSE << Crossing(mod.name, signal, register.name,
                         source_domain, target_domain,
                         synced,
                         IF synced THEN "two-stage synchronizer"
                         ELSE IF target_domain = None
                              THEN "combinational path"
                              ELSE "async source") >>

ClassifySignal(design, mod, r, signal) ==
    LET register == mod.registers[r]
        target_domain == register.clock
        regs == design[ModIndex(design, mod.name)].registers
        source_reg == RegIndex(regs, signal)
        source_domain ==
            IF source_reg # 0 THEN regs[source_reg].clock ELSE None
        synced == /\ source_domain # target_domain
                  /\ target_domain # None
                  /\ _is_synchronized(r, mod)
    IN  IF source_domain = target_domain THEN <<>>
        ELSE << Crossing(mod.name, signal, register.name,
                         source_domain, target_domain,
                         synced,
                         IF synced THEN "two-stage synchronizer"
                         ELSE IF source_domain = None
                              THEN "combinational path"
                              ELSE "async source") >>

RECURSIVE ClassifySignals(_, _, _, _)
ClassifySignals(design, mod, r, signals) ==
    IF signals = <<>> THEN <<>>
    ELSE ClassifySignal(design, mod, r, Head(signals))
         \o ClassifySignals(design, mod, r, Tail(signals))

\* "for register in module.registers.values()", from position r on
RECURSIVE ClassifyRegisters(_, _, _)
ClassifyRegisters(design, mod, r) ==
    IF r > Len(mod.registers) THEN <<>>
    ELSE ClassifySignals(design, mod, r,
            sorted(mod.registers[r].name, DOMAIN mod.registers[r].drivers))
         \o ClassifyRegisters(design, mod, r + 1)

\* "for module in design.iter_modules()", from position m on
RECURSIVE ClassifyModules(_, _)
ClassifyModules(design, m) ==
    IF m > Len(design) THEN <<>>
    ELSE ClassifyRegisters(design, design[m], 1)
         \o ClassifyModules(design, m + 1)

classify_crossings(design) == ClassifyModules(design, 1)

AnalysisReport(clock_domains, crossings, disabled_rules) ==
    [clock_domains |-> clock_domains, crossings |-> crossings,
     disabled_rules |-> disabled_rules]

analyze_design(design, disabled_rules) ==
    AnalysisReport(derive_clock_domains(design),
                   classify_crossings(design),
                   disabled_rules)

\* violations without "crossing.rule not in self.disabled_rules"
ViolationsIgnoringDisabled(rep) ==
    SelectSeq(rep.crossings, LAMBDA crossing : ~crossing.safe)

violations(rep) ==
    SelectSeq(rep.crossings,
              LAMBDA crossing :
                  ~crossing.safe /\ crossing.rule \notin rep.disabled_rules)

has_violations(rep) == violations(rep) # <<>>

exit_code(rep) == IF has_violations(rep) THEN 1 ELSE 0

-----------------------------------------------------------------------------
(* The syntax trees explored: the nodes a traversal may meet. *)

Zero == IntConst(<<"0">>)
One == IntConst(<<"1">>)
Two == IntConst(<<"2">>)
SizedOne == IntConst(<<"1", "'", "b", "1">>)
SizedZero == IntConst(<<"1", "'", "b", "0">>)

ModuleNames == {"M"}

\* reg a;  reg [1'b1:0] a;  reg b;  reg c;  reg b, c;  wire w; input d;
DeclLists ==
    {<<Reg("a", NoneNode)>>, <<Reg("a", Width(SizedOne, Zero))>>,
     <<Reg("b", NoneNode)>>, <<Reg("c", NoneNode)>>,
     <<Reg("b", NoneNode), Reg("c", NoneNode)>>,
     <<Wire("w"), Input("d")>>}

PosedgeA == Sens(Identifier("clkA"), "posedge")
PosedgeB == Sens(Identifier("clkB"), "posedge")
NegedgeRst == Sens(Identifier("rst_n"), "negedge")

\* always @(posedge clkA), @(posedge clkB), @(posedge clkA or negedge rst_n),
\* @(negedge rst_n or posedge clkA), @(en), @*
SensInputs ==
    {SensList(<<PosedgeA>>), SensList(<<PosedgeB>>),
     SensList(<<PosedgeA, NegedgeRst>>), SensList(<<NegedgeRst, PosedgeA>>),
     SensList(<<Sens(Identifier("en"), "level")>>), NoneNode}

Statement(left, right) == [left |-> left, right |-> right]

\* a <= d;  a <= b;  c <= a;  b <= 1'b0;  a[0] <= b;  a <= {a[0], d};
\* a <= {d, {d, d}};  a[i] <= c;  d <= a;  a[2] <= d;  c <= a[i];
\* an assignment whose left side is no Lvalue
Statements ==
    {Statement(Lvalue(Identifier("a")), Identifier("d")),
     Statement(Lvalue(Identifier("a")), Identifier("b")),
     Statement(Lvalue(Identifier("c")), Identifier("a")),
     Statement(Lvalue(Identifier("b")), SizedZero),
     Statement(Lvalue(Pointer(Identifier("a"), Zero)), Identifier("b")),
     Statement(Lvalue(Identifier("a")),
               Concat(<<Pointer(Identifier("a"), Zero), Identifier("d")>>)),
     Statement(Lvalue(Identifier("a")),
               Concat(<<Identifier("d"),
                        Concat(<<Identifier("d"), Identifier("d")>>)>>)),
     Statement(Lvalue(Pointer(Identifier("a"), Identifier("i"))),
               Identifier("c")),
     Statement(Lvalue(Identifier("d")), Identifier("a")),
     Statement(Lvalue(Pointer(Identifier("a"), Two)), Identifier("d")),
     Statement(Lvalue(Identifier("c")),
               Pointer(Identifier("a"), Identifier("i"))),
     Statement(Identifier("a"), Identifier("d"))}

DisabledRuleSets == {{}, {"unsafe_crossing"}}

\* the size of a design: its registers and its recorded (stage, source) pairs
RECURSIVE SumSeq(_)
SumSeq(q) == IF q = <<>> THEN 0 ELSE Head(q) + SumSeq(Tail(q))

RECURSIVE SumSet(_, _)
SumSet(f, S) ==
    IF S = {} THEN 0
    ELSE LET x == CHOOSE x \in S : TRUE
         IN  Cardinality(f[x]) + SumSet(f, S \ {x})

DriverEntries(register) == SumSet(register.drivers, DOMAIN register.drivers)

TotalRegs(mods) == Len(iter_registers(mods))

TotalDriverEntries(mods) ==
    LET regs == iter_registers(mods)
    IN  SumSeq([i \in 1..Len(regs) |-> DriverEntries(regs[i])])

-----------------------------------------------------------------------------
(* The traversal as a state machine. pc is "build" while parse_design walks  *)
(* the tree and "done" once analyze_design has returned its report.         *)
(* writers is a history variable: per module under construction, for each   *)
(* register, the clocks of the clocked blocks in which it was assigned, in  *)
(* the order the traversal first met them.                                  *)

NoReport == AnalysisReport(<<>>, <<>>, {})

\* the value a query of the report returned
Returned(query, value) == [query |-> query, value |-> value]

NoResult == Returned("none", Nothing)

Init ==
    /\ modules = <<>>
    /\ module_stack = <<>>
    /\ clock_stack = <<>>
    /\ pc = "build"
    /\ report = NoReport
    /\ writers = <<>>
    /\ tree = <<>>
    /\ first = Nothing
    /\ result = NoResult

Pop(stack) == SubSeq(stack, 1, Len(stack) - 1)

\* visit_ModuleDef up to the visit of its items; ModuleDef nodes are children
\* of the Description only
visit_ModuleDef_enter(name) ==
    /\ pc = "build"
    /\ module_stack = <<>>
    /\ clock_stack = <<>>
    /\ module_stack' = Append(module_stack, Module(name))
    /\ UNCHANGED <<modules, clock_stack, pc, report>>

\* the finally clause of visit_ModuleDef
visit_ModuleDef_exit ==
    /\ pc = "build"
    /\ module_stack # <<>>
    /\ clock_stack = <<>>
    /\ module_stack' = Pop(module_stack)
    /\ modules' = SetModule(modules, module)
    /\ UNCHANGED <<clock_stack, pc, report>>

visit_Decl(list) ==
    /\ pc = "build"
    /\ module_stack # <<>>
    /\ module_stack' =
          [module_stack EXCEPT ![Len(module_stack)] = DeclAll(module, list)]
    /\ UNCHANGED <<modules, clock_stack, pc, report>>

\* visit_Always up to the visit of its statement
visit_Always_enter(sens) ==
    /\ pc = "build"
    /\ module_stack # <<>>
    /\ clock_stack' = Append(clock_stack, _extract_clock(sens))
    /\ UNCHANGED <<modules, module_stack, pc, report>>

\* the finally clause of visit_Always
visit_Always_exit ==
    /\ pc = "build"
    /\ clock_stack # <<>>
    /\ clock_stack' = Pop(clock_stack)
    /\ UNCHANGED <<modules, module_stack, pc, report>>

visit_BlockingSubstitution(left, right) ==
    /\ pc = "build"
    /\ module_stack # <<>>
    /\ module_stack' =
          [module_stack EXCEPT ![Len(module_stack)] =
              _handle_assignment(module, current_clock, left, right)]
    /\ UNCHANGED <<modules, clock_stack, pc, report>>

visit_NonblockingSubstitution(left, right) ==
    /\ pc = "build"
    /\ module_stack # <<>>
    /\ module_stack' =
          [module_stack EXCEPT ![Len(module_stack)] =
              _handle_assignment(module, current_clock, left, right)]
    /\ UNCHANGED <<modules, clock_stack, pc, report>>

\* parse_design returns DesignGraph(modules=builder.modules) and
\* analyze_design runs on it
AnalyzeDesign(disabled_rules) ==
    /\ pc = "build"
    /\ module_stack = <<>>
    /\ pc' = "done"
    /\ report' = analyze_design(modules, disabled_rules)
    /\ UNCHANGED <<modules, module_stack, clock_stack>>

\* the bounds, on the state a step leads to
WithinBounds ==
    /\ Len(modules') + Len(module_stack') <= MaxModules
    /\ Len(clock_stack') <= MaxClockDepth
    /\ TotalRegs(modules' \o module_stack') <= MaxRegs
    /\ TotalDriverEntries(modules' \o module_stack') <= MaxDriverEntries

Next ==
    \/ \E name \in ModuleNames :
          visit_ModuleDef_enter(name) /\ WithinBounds /\ UNCHANGED aux
    \/ visit_ModuleDef_exit /\ UNCHANGED aux
    \/ \E list \in DeclLists :
          visit_Decl(list) /\ WithinBounds /\ UNCHANGED aux
    \/ \E sens \in SensInputs :
          visit_Always_enter(sens) /\ WithinBounds /\ UNCHANGED aux
    \/ visit_Always_exit /\ UNCHANGED aux
    \/ \E s \in Statements :
          /\ visit_BlockingSubstitution(s.left, s.right)
          /\ WithinBounds
          /\ UNCHANGED aux
    \/ \E s \in Statements :
          /\ visit_NonblockingSubstitution(s.left, s.right)
          /\ WithinBounds
          /\ UNCHANGED aux
    \/ \E disabled_rules \in DisabledRuleSets :
          AnalyzeDesign(disabled_rules) /\ UNCHANGED aux

Spec == Init /\ [][Next]_vars

-----------------------------------------------------------------------------
(* SpecClock: the same traversal over trees with every sensitivity list of  *)
(* up to MaxSensLen entries and few statements, with the history of the     *)
(* clocked blocks that wrote each register.                                 *)

\* posedge clkA, negedge clkB, negedge rst_n, posedge ARESET, posedge first,
\* a level entry en, posedge clkB[0], and an entry that is no Sens node
SensEntries ==
    {Sens(Identifier("clkA"), "posedge"), Sens(Identifier("clkB"), "negedge"),
     Sens(Identifier("rst_n"), "negedge"),
     Sens(Identifier("ARESET"), "posedge"),
     Sens(Identifier("first"), "posedge"), Sens(Identifier("en"), "level"),
     Sens(Pointer(Identifier("clkB"), Zero), "posedge"), Identifier("clkB")}

AllSensLists ==
    {NoneNode} \cup
    {SensList(l) : l \in UNION {[1..n -> SensEntries] : n \in 0..MaxSensLen}}

\* reg a;
DeclListsClock == {<<Reg("a", NoneNode)>>}

\* a <= d;  a[0] <= b;  b <= a;
StatementsClock ==
    {Statement(Lvalue(Identifier("a")), Identifier("d")),
     Statement(Lvalue(Pointer(Identifier("a"), Zero)), Identifier("b")),
     Statement(Lvalue(Identifier("b")), Identifier("a"))}

\* the name of the declared register a statement's left side writes, or None
AssignedRegister(mod, left) ==
    LET name ==
          IF left.type # "Lvalue" THEN None
          ELSE IF left.var.type = "Identifier" THEN left.var.name
          ELSE IF left.var.type = "Pointer" /\ left.var.var.type = "Identifier"
               THEN left.var.var.name
               ELSE None
    IN  IF name \in RegisterNames(mod) THEN name ELSE None

\* writers of the current module after an assignment to left under clock
NoteWriter(w, mod, clock, left) ==
    LET name == AssignedRegister(mod, left)
        seen == IF name \in DOMAIN w THEN w[name] ELSE <<>>
    IN  IF \/ name = None
           \/ clock = None
           \/ \E i \in 1..Len(seen) : seen[i] = clock
           \/ Len(seen) >= MaxWriters
        THEN w
        ELSE [n \in (DOMAIN w) \cup {name} |->
                IF n = name THEN Append(seen, clock) ELSE w[n]]

NoteWriters(left) ==
    writers' = [writers EXCEPT ![Len(writers)] =
                   NoteWriter(@, module, current_clock, left)]

NextClock ==
    \/ \E name \in ModuleNames :
          /\ visit_ModuleDef_enter(name)
          /\ WithinBounds
          /\ writers' = Append(writers, <<>>)
          /\ UNCHANGED others
    \/ visit_ModuleDef_exit /\ writers' = Pop(writers) /\ UNCHANGED others
    \/ \E list \in DeclListsClock :
          visit_Decl(list) /\ WithinBounds /\ UNCHANGED aux
    \/ \E sens \in AllSensLists :
          visit_Always_enter(sens) /\ WithinBounds /\ UNCHANGED aux
    \/ visit_Always_exit /\ UNCHANGED aux
    \/ \E s \in StatementsClock :
          /\ visit_BlockingSubstitution(s.left, s.right)
          /\ WithinBounds
          /\ NoteWriters(s.left)
          /\ UNCHANGED others
    \/ \E s \in StatementsClock :
          /\ visit_NonblockingSubstitution(s.left, s.right)
          /\ WithinBounds
          /\ NoteWriters(s.left)
          /\ UNCHANGED others
    \/ \E disabled_rules \in DisabledRuleSets :
          AnalyzeDesign(disabled_rules) /\ UNCHANGED aux

SpecClock == Init /\ [][NextClock]_vars

-----------------------------------------------------------------------------
(* SpecVector: the traversal over trees with one register a of several      *)
(* widths and assignments of several right-hand shapes.                     *)

\* reg a;  reg [1'b1:0] a;  reg [0:1] a;  reg [i:0] a;
DeclListsVector ==
    {<<Reg("a", NoneNode)>>, <<Reg("a", Width(SizedOne, Zero))>>,
     <<Reg("a", Width(Zero, One))>>,
     <<Reg("a", Width(Identifier("i"), Zero))>>}

\* a <= d;  a <= {a[0], d};  a <= {d, {d, d}};  a <= {{a[0], d}};  a <= {d};
\* a <= b + {c, d};  a[0] <= b;  a[i] <= {b, c};  b <= a;
StatementsVector ==
    {Statement(Lvalue(Identifier("a")), Identifier("d")),
     Statement(Lvalue(Identifier("a")),
               Concat(<<Pointer(Identifier("a"), Zero), Identifier("d")>>)),
     Statement(Lvalue(Identifier("a")),
               Concat(<<Identifier("d"),
                        Concat(<<Identifier("d"), Identifier("d")>>)>>)),
     Statement(Lvalue(Identifier("a")),
               Concat(<<Concat(<<Pointer(Identifier("a"), Zero),
                                 Identifier("d")>>)>>)),
     Statement(Lvalue(Identifier("a")), Concat(<<Identifier("d")>>)),
     Statement(Lvalue(Identifier("a")),
               Plus(Identifier("b"),
                    Concat(<<Identifier("c"), Identifier("d")>>))),
     Statement(Lvalue(Pointer(Identifier("a"), Zero)), Identifier("b")),
     Statement(Lvalue(Pointer(Identifier("a"), Identifier("i"))),
               Concat(<<Identifier("b"), Identifier("c")>>)),
     Statement(Lvalue(Identifier("b")), Identifier("a"))}

NextVector ==
    \/ \E name \in ModuleNames :
          visit_ModuleDef_enter(name) /\ WithinBounds /\ UNCHANGED aux
    \/ visit_ModuleDef_exit /\ UNCHANGED aux
    \/ \E list \in DeclListsVector :
          visit_Decl(list) /\ WithinBounds /\ UNCHANGED aux
    \/ \E sens \in SensInputs :
          visit_Always_enter(sens) /\ WithinBounds /\ UNCHANGED aux
    \/ visit_Always_exit /\ UNCHANGED aux
    \/ \E s \in StatementsVector :
          /\ visit_BlockingSubstitution(s.left, s.right)
          /\ WithinBounds
          /\ UNCHANGED aux
    \/ \E s \in StatementsVector :
          /\ visit_NonblockingSubstitution(s.left, s.right)
          /\ WithinBounds
          /\ UNCHANGED aux
    \/ \E disabled_rules \in DisabledRuleSets :
          AnalyzeDesign(disabled_rules) /\ UNCHANGED aux

SpecVector == Init /\ [][NextVector]_vars

-----------------------------------------------------------------------------
(* SpecTwo: the traversal over trees of up to MaxModulesTwo modules, named  *)
(* M or N (a name may repeat), with registers a and b.                      *)

ModuleNamesTwo == {"M", "N"}

\* reg a;  reg b;
DeclListsTwo == {<<Reg("a", NoneNode)>>, <<Reg("b", NoneNode)>>}

\* always @(posedge clkA), @(posedge clkB), @(posedge CLKA)
SensInputsTwo ==
    {SensList(<<PosedgeA>>), SensList(<<PosedgeB>>),
     SensList(<<Sens(Identifier("CLKA"), "posedge")>>)}

\* a <= b;  a[0] <= b;  b <= 1'b0;
StatementsTwo ==
    {Statement(Lvalue(Identifier("a")), Identifier("b")),
     Statement(Lvalue(Pointer(Identifier("a"), Zero)), Identifier("b")),
     Statement(Lvalue(Identifier("b")), SizedZero)}

WithinBoundsTwo ==
    /\ Len(modules') + Len(module_stack') <= MaxModulesTwo
    /\ Len(clock_stack') <= MaxClockDepth
    /\ TotalRegs(modules' \o module_stack') <= MaxRegs
    /\ TotalDriverEntries(modules' \o module_stack') <= MaxDriverEntries

NextTwo ==
    \/ \E name \in ModuleNamesTwo :
          visit_ModuleDef_enter(name) /\ WithinBoundsTwo /\ UNCHANGED aux
    \/ visit_ModuleDef_exit /\ UNCHANGED aux
    \/ \E list \in DeclListsTwo :
          visit_Decl(list) /\ WithinBoundsTwo /\ UNCHANGED aux
    \/ \E sens \in SensInputsTwo :
          visit_Always_enter(sens) /\ WithinBoundsTwo /\ UNCHANGED aux
    \/ visit_Always_exit /\ UNCHANGED aux
    \/ \E s \in StatementsTwo :
          /\ visit_BlockingSubstitution(s.left, s.right)
          /\ WithinBoundsTwo
          /\ UNCHANGED aux
    \/ \E s \in StatementsTwo :
          /\ visit_NonblockingSubstitution(s.left, s.right)
          /\ WithinBoundsTwo
          /\ UNCHANGED aux
    \/ \E disabled_rules \in DisabledRuleSets :
          AnalyzeDesign(disabled_rules) /\ UNCHANGED aux

SpecTwo == Init /\ [][NextTwo]_vars

-----------------------------------------------------------------------------
(* SpecReport: the queries of an AnalysisReport, on reports built by hand   *)
(* and on reports analyze_design returns for a few finished designs.        *)

RuleNames == {"unsafe_crossing", "other_rule"}

\* Crossing(..., safe, reason, rule=rule)
ReportCrossings ==
    {[Crossing("M", "d", "a", None, "clkA", safe,
               IF safe THEN "two-stage synchronizer" ELSE "combinational path")
        EXCEPT !.rule = rule] : safe \in BOOLEAN, rule \in RuleNames}

\* AnalysisReport(clock_domains={}, crossings=[...], disabled_rules={...})
DrawnReports ==
    {AnalysisReport(<<>>, crossings, disabled_rules) :
        crossings \in UNION {[1..n -> ReportCrossings] : n \in 0..MaxCrossings},
        disabled_rules \in SUBSET RuleNames}

\* a finished module M whose only register a has clock clkA and these
\* bit_indices and drivers
DesignOf(bit_indices, drivers) ==
    << [Module("M") EXCEPT
          !.registers = << [Register("a", "M") EXCEPT
                              !.clock = "clkA",
                              !.bit_indices = bit_indices,
                              !.drivers = drivers] >>] >>

\* what parse_design returns for
\*   reg a; always @(posedge clkA) a <= d;
\*   reg a; always @(posedge clkA) a[0] <= d;
\*   reg [1:0] a; always @(posedge clkA) a <= {a[0], d};
ReportDesigns ==
    {DesignOf(Nothing, [k \in {"a"} |-> {"d"}]),
     DesignOf(Nothing, [k \in {"a[0]"} |-> {"d"}]),
     DesignOf(Just(<<1, 0>>),
              [k \in {"a[1]", "a[0]"} |-> IF k = "a[1]" THEN {"a[0]"} ELSE {"d"}])}

InitReport ==
    /\ module_stack = <<>>
    /\ clock_stack = <<>>
    /\ writers = <<>>
    /\ tree = <<>>
    /\ first = Nothing
    /\ result = NoResult
    /\ \/ pc = "done" /\ modules = <<>> /\ report \in DrawnReports
       \/ pc = "build" /\ modules \in ReportDesigns /\ report = NoReport

\* report.violations()
Query_violations ==
    /\ pc = "done"
    /\ result' = Returned("violations", violations(report))
    /\ UNCHANGED prog

\* report.has_violations()
Query_has_violations ==
    /\ pc = "done"
    /\ result' = Returned("has_violations", has_violations(report))
    /\ UNCHANGED prog

\* report.exit_code()
Query_exit_code ==
    /\ pc = "done"
    /\ result' = Returned("exit_code", exit_code(report))
    /\ UNCHANGED prog

NextReport ==
    \/ \E disabled_rules \in SUBSET RuleNames :
          AnalyzeDesign(disabled_rules) /\ UNCHANGED aux
    \/ Query_violations /\ UNCHANGED <<writers, tree, first>>
    \/ Query_has_violations /\ UNCHANGED <<writers, tree, first>>
    \/ Query_exit_code /\ UNCHANGED <<writers, tree, first>>

SpecReport == InitReport /\ [][NextReport]_vars

-----------------------------------------------------------------------------
(* SpecRuns: two runs of parse_design and analyze_design on one tree. The   *)
(* first run walks a tree and records it in tree; the second starts from a  *)
(* new builder and walks the recorded tree; first holds what the first run  *)
(* returned.                                                                *)

\* reg [1'b1:0] a;  reg a;
DeclListsRuns == {<<Reg("a", Width(SizedOne, Zero))>>, <<Reg("a", NoneNode)>>}

\* always @(posedge clkA)
SensInputsRuns == {SensList(<<PosedgeA>>)}

\* a <= {b, d};  a[0] <= d;
StatementsRuns ==
    {Statement(Lvalue(Identifier("a")),
               Concat(<<Identifier("b"), Identifier("d")>>)),
     Statement(Lvalue(Pointer(Identifier("a"), Zero)), Identifier("d"))}

Event(op, arg) == [op |-> op, arg |-> arg]

\* the first run appends the node it visits to the tree, the second visits
\* the node the tree holds next
Walk(op, arg) ==
    /\ IF first = Nothing
       THEN /\ tree' = Append(tree, Event(op, arg))
            /\ Len(tree') <= MaxTree
       ELSE /\ tree # <<>>
            /\ Head(tree).op = op
            /\ Head(tree).arg = arg
            /\ tree' = Tail(tree)
    /\ UNCHANGED <<writers, first, result>>

\* the second call of parse_design: builder = _DesignBuilder()
SecondRun ==
    /\ pc = "done"
    /\ first = Nothing
    /\ first' = Just([design |-> modules, report |-> report])
    /\ modules' = <<>>
    /\ module_stack' = <<>>
    /\ clock_stack' = <<>>
    /\ pc' = "build"
    /\ report' = NoReport
    /\ UNCHANGED <<writers, tree, result>>

NextRuns ==
    \/ \E name \in ModuleNames :
          visit_ModuleDef_enter(name) /\ WithinBounds
          /\ Walk("ModuleDef", name)
    \/ visit_ModuleDef_exit /\ Walk("ModuleDef_end", Nothing)
    \/ \E list \in DeclListsRuns :
          visit_Decl(list) /\ WithinBounds /\ Walk("Decl", list)
    \/ \E sens \in SensInputsRuns :
          visit_Always_enter(sens) /\ WithinBounds /\ Walk("Always", sens)
    \/ visit_Always_exit /\ Walk("Always_end", Nothing)
    \/ \E s \in StatementsRuns :
          /\ visit_BlockingSubstitution(s.left, s.right)
          /\ WithinBounds
          /\ Walk("BlockingSubstitution", s)
    \/ \E s \in StatementsRuns :
          /\ visit_NonblockingSubstitution(s.left, s.right)
          /\ WithinBounds
          /\ Walk("NonblockingSubstitution", s)
    \/ \E disabled_rules \in DisabledRuleSets :
          AnalyzeDesign(disabled_rules) /\ Walk("analyze_design", disabled_rules)
    \/ SecondRun

SpecRuns == Init /\ [][NextRuns]_vars

-----------------------------------------------------------------------------
(* SpecDrivers: the traversal over trees with registers a and b that are    *)
(* assigned from several sources, in a block with an asynchronous reset.    *)

\* reg a, b;  reg [1'b1:0] a;
DeclListsDrivers ==
    {<<Reg("a", NoneNode), Reg("b", NoneNode)>>,
     <<Reg("a", Width(SizedOne, Zero))>>}

\* always @(posedge clkA or negedge rst_n)
SensInputsDrivers == {SensList(<<PosedgeA, NegedgeRst>>)}

\* a <= d;  a <= b;  a <= 1'b0;  a[0] <= b;  a[0] <= d;  a <= {a[0], d};
\* b <= a;
StatementsDrivers ==
    {Statement(Lvalue(Identifier("a")), Identifier("d")),
     Statement(Lvalue(Identifier("a")), Identifier("b")),
     Statement(Lvalue(Identifier("a")), SizedZero),
     Statement(Lvalue(Pointer(Identifier("a"), Zero)), Identifier("b")),
     Statement(Lvalue(Pointer(Identifier("a"), Zero)), Identifier("d")),
     Statement(Lvalue(Identifier("a")),
               Concat(<<Pointer(Identifier("a"), Zero), Identifier("d")>>)),
     Statement(Lvalue(Identifier("b")), Identifier("a"))}

WithinBoundsDrivers ==
    /\ Len(modules') + Len(module_stack') <= MaxModules
    /\ Len(clock_stack') <= MaxClockDepth
    /\ TotalRegs(modules' \o module_stack') <= MaxRegs
    /\ TotalDriverEntries(modules' \o module_stack') <= MaxDriverEntriesDrivers

NextDrivers ==
    \/ \E name \in ModuleNames :
          visit_ModuleDef_enter(name) /\ WithinBoundsDrivers /\ UNCHANGED aux
    \/ visit_ModuleDef_exit /\ UNCHANGED aux
    \/ \E list \in DeclListsDrivers :
          visit_Decl(list) /\ WithinBoundsDrivers /\ UNCHANGED aux
    \/ \E sens \in SensInputsDrivers :
          visit_Always_enter(sens) /\ WithinBoundsDrivers /\ UNCHANGED aux
    \/ visit_Always_exit /\ UNCHANGED aux
    \/ \E s \in StatementsDrivers :
          /\ visit_BlockingSubstitution(s.left, s.right)
          /\ WithinBoundsDrivers
          /\ UNCHANGED aux
    \/ \E s \in StatementsDrivers :
          /\ visit_NonblockingSubstitution(s.left, s.right)
          /\ WithinBoundsDrivers
          /\ UNCHANGED aux
    \/ \E disabled_rules \in DisabledRuleSets :
          AnalyzeDesign(disabled_rules) /\ UNCHANGED aux

SpecDrivers == Init /\ [][NextDrivers]_vars

-----------------------------------------------------------------------------
(* SpecNest: the traversal over trees whose Always nodes nest, up to        *)
(* MaxClockDepthNest deep; tree records the Always nodes entered and left.  *)

\* reg a, b;
DeclListsNest == {<<Reg("a", NoneNode), Reg("b", NoneNode)>>}

\* always @(posedge clkA or negedge rst_n), @(posedge clkB), @(en)
SensInputsNest ==
    {SensList(<<PosedgeA, NegedgeRst>>), SensList(<<PosedgeB>>),
     SensList(<<Sens(Identifier("en"), "level")>>)}

\* a <= d;  b <= d;
StatementsNest ==
    {Statement(Lvalue(Identifier("a")), Identifier("d")),
     Statement(Lvalue(Identifier("b")), Identifier("d"))}

WithinBoundsNest ==
    /\ Len(modules') + Len(module_stack') <= MaxModules
    /\ Len(clock_stack') <= MaxClockDepthNest
    /\ TotalRegs(modules' \o module_stack') <= MaxRegs
    /\ TotalDriverEntries(modules' \o module_stack') <= MaxDriverEntries

NextNest ==
    \/ \E name \in ModuleNames :
          visit_ModuleDef_enter(name) /\ WithinBoundsNest /\ UNCHANGED aux
    \/ visit_ModuleDef_exit /\ UNCHANGED aux
    \/ \E list \in DeclListsNest :
          visit_Decl(list) /\ WithinBoundsNest /\ UNCHANGED aux
    \/ \E sens \in SensInputsNest :
          visit_Always_enter(sens) /\ WithinBoundsNest /\ Walk("Always", sens)
    \/ visit_Always_exit /\ Walk("Always_end", Nothing)
    \/ \E s \in StatementsNest :
          /\ visit_BlockingSubstitution(s.left, s.right)
          /\ WithinBoundsNest
          /\ UNCHANGED aux
    \/ \E s \in StatementsNest :
          /\ visit_NonblockingSubstitution(s.left, s.right)
          /\ WithinBoundsNest
          /\ UNCHANGED aux
    \/ \E disabled_rules \in DisabledRuleSets :
          AnalyzeDesign(disabled_rules) /\ UNCHANGED aux

SpecNest == Init /\ [][NextNest]_vars

-----------------------------------------------------------------------------
(* Vocabulary of the properties. In the explored trees register a plays q,  *)
(* stage1, sync and state, b plays the source register and rst_sync, c      *)
(* plays stage2, d plays the inputs d and in, clkA and clkB are the clocks. *)

\* every source signal recorded for a register, over all its stages
DriverSet(register) ==
    UNION {register.drivers[k] : k \in DOMAIN register.drivers}

CrossingSet == {report.crossings[i] : i \in 1..Len(report.crossings)}

\* the design holds one module, and that module exactly these registers
OnlyModuleHas(registers) ==
    /\ Len(modules) = 1
    /\ RegisterSet(modules[1]) = registers
    /\ Len(modules[1].registers) = Cardinality(registers)

\* some other register of the module has the register's clock and is driven
\* by exactly the register
HasSecondStage(mod, register) ==
    \E other \in RegisterSet(mod) :
        /\ other.name # register.name
        /\ other.clock = register.clock
        /\ DriverSet(other) = {register.name}

-----------------------------------------------------------------------------
(* C1 *)

C1_Design ==
    \E bits \in {Nothing, Just(<<1, 0>>)} :
        OnlyModuleHas({[name |-> "a", module |-> "M", clock |-> "clkA",
                        bit_indices |-> bits,
                        drivers |-> [k \in {"a"} |-> {"d"}]]})

\* C1: a single module whose only register q (here a) is assigned only in a
\* block clocked by clk (here clkA) from the input d yields exactly one
\* Crossing, d into q, source_domain None, target_domain clk, unsafe,
\* "combinational path".
C1_EndToEnd ==
    (pc = "done" /\ C1_Design) =>
        report.crossings =
            << Crossing("M", "d", "a", None, "clkA", FALSE,
                        "combinational path") >>

-----------------------------------------------------------------------------
(* C2 *)

C2_Design ==
    /\ Len(modules) = 1
    /\ \E src, stage1, stage2 \in RegisterSet(modules[1]) :
          /\ src.name = "b" /\ src.clock = "clkA"
          /\ stage1.name = "a" /\ stage1.clock = "clkB"
          /\ stage1.drivers = [k \in {"a"} |-> {"b"}]
          /\ stage2.name = "c" /\ stage2.clock = "clkB"
          /\ stage2.drivers = [k \in {"c"} |-> {"a"}]

\* C2: with stage1 (a) clocked by clkB and driven by a signal of domain clkA
\* (b), and stage2 (c) clocked by clkB and driven solely by stage1, the
\* crossing into stage1 is unsafe with reason "async source" and the crossing
\* from stage1 into stage2 is safe with reason "two-stage synchronizer".
C2_SynchronizerRecognition ==
    (pc = "done" /\ C2_Design) =>
        /\ \E x \in CrossingSet :
              /\ x.signal = "b" /\ x.register = "a"
              /\ ~x.safe /\ x.reason = "async source"
        /\ \E x \in CrossingSet :
              /\ x.signal = "a" /\ x.register = "c"
              /\ x.safe /\ x.reason = "two-stage synchronizer"

-----------------------------------------------------------------------------
(* C3 *)

\* C3: a Crossing whose target register has a clock is safe with reason
\* "two-stage synchronizer" if and only if another register of the same
\* module has the target's clock and is driven by exactly the target;
\* otherwise it is unsafe.
C3_SynchronizerOverride ==
    pc = "done" =>
        \A x \in CrossingSet :
            \A m \in 1..Len(modules) :
                \A target \in RegisterSet(modules[m]) :
                    (/\ modules[m].name = x.module
                     /\ target.name = x.register
                     /\ target.clock # None) =>
                        IF HasSecondStage(modules[m], target)
                        THEN x.safe /\ x.reason = "two-stage synchronizer"
                        ELSE ~x.safe

-----------------------------------------------------------------------------
(* C4 *)

\* C4: no emitted Crossing has source_domain equal to target_domain (both
\* None included), and no Crossing is emitted for a register and a signal
\* that names a register of the same module with the same clock.
C4_SameDomainSuppression ==
    pc = "done" =>
        /\ \A x \in CrossingSet : x.source_domain # x.target_domain
        /\ \A m \in 1..Len(modules) :
              \A target, source \in RegisterSet(modules[m]) :
                  source.clock = target.clock =>
                      ~\E x \in CrossingSet :
                          /\ x.module = modules[m].name
                          /\ x.register = target.name
                          /\ x.signal = source.name

\* a register driven by another register of its clock, in a design for which
\* the classifier emitted Crossings
C4_Witness ==
    /\ pc = "done"
    /\ report.crossings # <<>>
    /\ \E m \in 1..Len(modules) :
          \E target, source \in RegisterSet(modules[m]) :
              /\ source.name # target.name
              /\ source.name \in DriverSet(target)
              /\ target.clock # None
              /\ source.clock = target.clock

-----------------------------------------------------------------------------
(* C5 *)

C5_Design ==
    OnlyModuleHas({[name |-> "a", module |-> "M", clock |-> "clkA",
                    bit_indices |-> Just(<<1, 0>>),
                    drivers |-> [k \in {"a[1]", "a[0]"} |->
                                   IF k = "a[1]" THEN {"a[0]"} ELSE {"d"}]]})

\* C5: for reg [1:0] sync (a) assigned sync <= {sync[0], in} in a clocked
\* block, with in (d) of another domain, a Crossing whose register field is
\* "sync[0]" is emitted, it is safe with reason "two-stage synchronizer", and
\* the report has no violations.
C5_VectorSynchronizer ==
    (pc = "done" /\ C5_Design /\ report.disabled_rules = {}) =>
        /\ \E x \in CrossingSet :
              /\ x.register = "a[0]"
              /\ x.safe
              /\ x.reason = "two-stage synchronizer"
        /\ ~has_violations(report)

-----------------------------------------------------------------------------
(* C6 *)

OldDrivers(register, k) ==
    IF k \in DOMAIN register.drivers THEN register.drivers[k] ELSE {}

\* what an assignment name <= right must have recorded, going from the
\* register before to the register after
C6_Recorded(before, after, right) ==
    LET name == before.name
        elements == _flatten_concat(right)
        split == /\ before.bit_indices # Nothing
                 /\ right.type = "Concat"
                 /\ Len(elements) = Len(before.bit_indices[1])
    IN  IF split
        THEN LET bits == before.bit_indices[1]
                 stages == {Stage(name, bits[k]) : k \in 1..Len(bits)}
             IN  /\ DOMAIN after.drivers = (DOMAIN before.drivers) \cup stages
                 /\ \A k \in 1..Len(bits) :
                       after.drivers[Stage(name, bits[k])] =
                           OldDrivers(before, Stage(name, bits[k]))
                           \cup collect(elements[k])
                 /\ \A key \in (DOMAIN before.drivers) \ stages :
                       after.drivers[key] = before.drivers[key]
        ELSE /\ DOMAIN after.drivers = (DOMAIN before.drivers) \cup {name}
             /\ after.drivers[name] = OldDrivers(before, name) \cup collect(right)
             /\ \A key \in (DOMAIN before.drivers) \ {name} :
                   after.drivers[key] = before.drivers[key]

\* the step is an assignment name <= right to a declared register
C6_Step(left, right) ==
    (/\ left.type = "Lvalue"
     /\ left.var.type = "Identifier"
     /\ module_stack # <<>>
     /\ Len(module_stack') = Len(module_stack)
     /\ left.var.name \in RegisterNames(module)
     /\ \/ visit_BlockingSubstitution(left, right)
        \/ visit_NonblockingSubstitution(left, right)) =>
        LET r == RegIndex(module.registers, left.var.name)
        IN  C6_Recorded(module.registers[r],
                        module_stack'[Len(module_stack')].registers[r],
                        right)

\* C6: an assignment to a whole register of known width whose right side is a
\* concatenation of exactly as many flattened elements as the register has
\* bits records one stage "name[i]" per declared index, the k-th declared
\* index with the identifiers of the k-th element, and nothing under the
\* whole-register stage; any other assignment to a whole register records
\* all right-hand identifiers under the single stage "name".
C6_VectorDecomposition ==
    [][\A s \in StatementsVector : C6_Step(s.left, s.right)]_vars

\* reg [1:0] a; a <= {a[0], d} was split and nothing else was recorded
C6_Witness ==
    /\ module_stack # <<>>
    /\ \E register \in RegisterSet(module) :
          /\ register.bit_indices = Just(<<1, 0>>)
          /\ DOMAIN register.drivers = {"a[1]", "a[0]"}
          /\ register.drivers["a[1]"] = {"a[0]"}
          /\ register.drivers["a[0]"] = {"d"}

-----------------------------------------------------------------------------
(* C7 *)

\* at every point of the build a register's clock is the clock of the first
\* clocked block in which it was assigned
C7_ClockIsFirstWriter ==
    \A i \in 1..Len(module_stack) :
        \A register \in RegisterSet(module_stack[i]) :
            register.clock =
                IF register.name \in DOMAIN writers[i]
                THEN writers[i][register.name][1]
                ELSE None

\* a step leaves a clock that is set as it is
C7_ClockNeverChanges ==
    \A i \in 1..Len(module_stack) :
        \A j \in 1..Len(module_stack[i].registers) :
            (i <= Len(module_stack') /\ module_stack[i].registers[j].clock # None)
                => /\ j <= Len(module_stack'[i].registers)
                   /\ module_stack'[i].registers[j].clock =
                          module_stack[i].registers[j].clock

\* C7: once a register's clock is set no later assignment changes it, and a
\* register assigned in two clocked blocks with different clocks keeps the
\* clock of the block visited first.
C7_FirstWriterWins ==
    []C7_ClockIsFirstWriter /\ [][C7_ClockNeverChanges]_vars

\* a register assigned in two clocked blocks with different clocks
C7_Witness ==
    \E i \in 1..Len(module_stack) :
        \E register \in RegisterSet(module_stack[i]) :
            /\ register.name \in DOMAIN writers[i]
            /\ Len(writers[i][register.name]) = 2
            /\ writers[i][register.name][2] # register.clock

-----------------------------------------------------------------------------
(* C8 *)

\* the names of SensEntries that contain rst, reset, areset, srst or clr,
\* whatever the case
C8_ResetLike == {"rst_n", "ARESET", "first"}

\* the positions of the posedge/negedge entries on a plain identifier
C8_EdgeEntries(list) ==
    {i \in 1..Len(list) :
        /\ list[i].type = "Sens"
        /\ list[i].type_ \in {"posedge", "negedge"}
        /\ list[i].sig.type = "Identifier"}

C8_Expected(sens) ==
    IF sens.type # "SensList" THEN None
    ELSE LET edges == C8_EdgeEntries(sens.list)
             clocks == {i \in edges : sens.list[i].sig.name \notin C8_ResetLike}
         IN  IF clocks # {}
             THEN sens.list[CHOOSE i \in clocks : \A j \in clocks : i <= j].sig.name
             ELSE IF edges # {}
             THEN sens.list[CHOOSE i \in edges : \A j \in edges : i >= j].sig.name
             ELSE None

\* C8: the block's clock is the first posedge/negedge entry on a plain
\* identifier whose name holds no reset token, else the last such entry, else
\* None; so (posedge clk or negedge reset) gives clk in either order.
C8_FunctionalClock ==
    [][Len(clock_stack') > Len(clock_stack) =>
        \A sens \in AllSensLists :
          visit_Always_enter(sens) =>
              /\ clock_stack'[Len(clock_stack')] = C8_Expected(sens)
              /\ sens \in {SensList(<<Sens(Identifier("clkA"), "posedge"),
                                      Sens(Identifier("rst_n"), "negedge")>>),
                           SensList(<<Sens(Identifier("rst_n"), "negedge"),
                                      Sens(Identifier("clkA"), "posedge")>>)}
                    => clock_stack'[Len(clock_stack')] = "clkA"]_vars

\* a register clocked by clkA while the traversal is inside a block whose
\* edge entries all look like resets
C8_Witness ==
    /\ module_stack # <<>>
    /\ current_clock = "ARESET"
    /\ \E register \in RegisterSet(module) : register.clock = "clkA"

-----------------------------------------------------------------------------
(* C9 *)

\* one module whose registers were all assigned under clkA, among them state
\* (here a), driven by nothing but other registers of the module
C9_Design ==
    /\ Len(modules) = 1
    /\ \A register \in RegisterSet(modules[1]) : register.clock = "clkA"
    /\ \E state \in RegisterSet(modules[1]) :
          /\ state.name = "a"
          /\ DriverSet(state) \subseteq RegisterNames(modules[1]) \ {"a"}

\* C9: for a module whose registers are all assigned inside one clocked
\* block, where state (here a) is driven only by constants and by other
\* registers written in that block, the report holds no Crossing whose
\* register is state.
C9_AsyncResetNoCrossing ==
    (pc = "done" /\ C9_Design) =>
        ~\E x \in CrossingSet : x.register = "a"

-----------------------------------------------------------------------------
(* C10 *)

C10_Registers == UNION {RegisterSet(modules[m]) : m \in 1..Len(modules)}

\* C10: the keys of derive_clock_domains are exactly the clocks of the
\* design's registers, domains[c] has name c and holds exactly the names of
\* the registers whose clock is c, and a register without clock is in no
\* domain and None is no key.
C10_ClockDomains ==
    pc = "done" =>
        LET domains == report.clock_domains
        IN  /\ DOMAIN domains =
                   {register.clock : register \in C10_Registers} \ {None}
            /\ \A c \in DOMAIN domains :
                  /\ domains[c].name = c
                  /\ domains[c].registers =
                         {register.name :
                            register \in {x \in C10_Registers : x.clock = c}}
            /\ \A register \in C10_Registers :
                  register.clock = None =>
                      \A c \in DOMAIN domains :
                          \/ register.name \notin domains[c].registers
                          \/ \E x \in C10_Registers :
                                x.name = register.name /\ x.clock = c

\* two modules, the domains clkA and CLKA apart, and a register without clock
C10_Witness ==
    /\ pc = "done"
    /\ Len(modules) = 2
    /\ DOMAIN report.clock_domains = {"clkA", "CLKA"}
    /\ \E register \in C10_Registers : register.clock = None

-----------------------------------------------------------------------------
(* C11 *)

\* the crossings that are not safe and whose rule is not disabled, in order
RECURSIVE C11_Violations(_, _)
C11_Violations(crossings, disabled_rules) ==
    IF crossings = <<>> THEN <<>>
    ELSE (IF /\ Head(crossings).safe = FALSE
             /\ Head(crossings).rule \notin disabled_rules
          THEN <<Head(crossings)>> ELSE <<>>)
         \o C11_Violations(Tail(crossings), disabled_rules)

\* what the last query returned is what the report calls for
C11_Returned ==
    LET expected == C11_Violations(report.crossings, report.disabled_rules)
        suppressed ==
            /\ "unsafe_crossing" \in report.disabled_rules
            /\ \A i \in 1..Len(report.crossings) :
                  report.crossings[i].safe
                  \/ report.crossings[i].rule = "unsafe_crossing"
    IN  /\ result.query = "violations" =>
              /\ result.value = expected
              /\ suppressed => result.value = <<>>
        /\ result.query = "exit_code" =>
              /\ result.value \in {0, 1}
              /\ result.value = 0 <=> expected = <<>>
              /\ suppressed => result.value = 0
        /\ (pc = "done" /\ modules # <<>>) =>
              /\ report.crossings = classify_crossings(modules)
              /\ report.crossings = analyze_design(modules, {}).crossings

\* C11: violations() returns, in the order of crossings, exactly the
\* crossings that are not safe and whose rule is not in disabled_rules, and
\* exit_code() is 0 if and only if that list is empty; with unsafe_crossing
\* disabled and every unsafe crossing under that rule, violations() is empty
\* and exit_code() is 0, and the crossings are those of the report without
\* the suppression and are changed by no query.
C11_DisabledRuleSuppression ==
    []C11_Returned /\ [][pc = "done" => report' = report]_vars

\* exit_code() returned 0 for a report of analyze_design that holds an unsafe
\* crossing under the disabled rule
C11_Witness ==
    /\ pc = "done"
    /\ modules # <<>>
    /\ result.query = "exit_code"
    /\ result.value = 0
    /\ "unsafe_crossing" \in report.disabled_rules
    /\ \E i \in 1..Len(report.crossings) : ~report.crossings[i].safe

-----------------------------------------------------------------------------
(* C12 *)

-----------------------------------------------------------------------------
(* C13 *)

\* the clock of the register of mod called signal, None when there is none
C13_SourceDomain(mod, signal) ==
    IF signal \in RegisterNames(mod)
    THEN mod.registers[RegIndex(mod.registers, signal)].clock
    ELSE None

\* C13: every emitted Crossing names a register declared in its module and,
\* as signal, a source name held in one of that register's driver sets, and
\* its source_domain is the clock of the same-module register of that name,
\* or None if there is none.
C13_RealPair ==
    pc = "done" =>
        \A x \in CrossingSet :
            \E m \in 1..Len(modules) :
                /\ modules[m].name = x.module
                /\ \E target \in RegisterSet(modules[m]) :
                      /\ target.name = x.register
                      /\ x.signal \in DriverSet(target)
                /\ x.source_domain = C13_SourceDomain(modules[m], x.signal)

-----------------------------------------------------------------------------
(* C14 *)

\* the stage keys a register may hold: its name and one key per bit index,
\* of bit_indices when known
C14_Keys(register) ==
    {register.name} \cup
    {Stage(register.name, i) :
        i \in IF register.bit_indices = Nothing
              THEN 0..MaxIndex
              ELSE {register.bit_indices[1][k] :
                       k \in 1..Len(register.bit_indices[1])}}

\* C14: after any sequence of declarations and assignments every key of a
\* register's drivers is the register's name or "name[i]" with, when
\* bit_indices is known, i one of the bit_indices.
C14_StageKeyInvariant ==
    \A mods \in {modules, module_stack} :
        \A m \in 1..Len(mods) :
            \A register \in RegisterSet(mods[m]) :
                DOMAIN register.drivers \subseteq C14_Keys(register)

-----------------------------------------------------------------------------
(* C15 *)

\* the step visits the declaration list and leaves every register the
\* module already holds as it is
C15_Step(list) ==
    (module_stack # <<>> /\ visit_Decl(list)) =>
        \A r \in 1..Len(module.registers) :
            module_stack'[Len(module_stack')].registers[r] = module.registers[r]

\* C15: a declaration of a name already declared in the current module
\* leaves the existing Register unchanged: its bit_indices, clock and drivers
\* stay those of the first declaration, whatever the width of the later one.
C15_FirstDeclarationWins ==
    [][\A list \in DeclListsVector : C15_Step(list)]_vars

-----------------------------------------------------------------------------
(* C16 *)

\* C16: every emitted Crossing has rule "unsafe_crossing"; it is safe if and
\* only if its reason is "two-stage synchronizer", and then its
\* target_domain is not None; when unsafe its reason is "combinational path"
\* exactly when its source_domain is None, and "async source" only when
\* source_domain and target_domain are both not None and differ.
C16_VerdictReasonConsistency ==
    pc = "done" =>
        \A x \in CrossingSet :
            /\ x.rule = "unsafe_crossing"
            /\ x.safe <=> x.reason = "two-stage synchronizer"
            /\ x.safe => x.target_domain # None
            /\ ~x.safe =>
                  /\ x.reason = "combinational path" <=> x.source_domain = None
                  /\ x.reason = "async source" =>
                        /\ x.source_domain # None
                        /\ x.target_domain # None
                        /\ x.source_domain # x.target_domain

\* a report of two unsafe crossings into a register clocked by clkB, from
\* sources without clock
C16_Witness ==
    /\ pc = "done"
    /\ Len(report.crossings) = 2
    /\ \A x \in CrossingSet :
          /\ x.target_domain = "clkB"
          /\ x.source_domain = None
          /\ ~x.safe
          /\ x.reason = "combinational path"

-----------------------------------------------------------------------------
(* C17 *)

\* the (stage, names) pairs an assignment to the whole register writes
C17_WholeRegister(register, right) ==
    LET elements == _flatten_concat(right)
    IN  IF /\ register.bit_indices # Nothing
           /\ right.type = "Concat"
           /\ Len(elements) = Len(register.bit_indices[1])
        THEN {<<Stage(register.name, register.bit_indices[1][k]),
                collect(elements[k])>> : k \in 1..Len(elements)}
        ELSE {<<register.name, collect(right)>>}

\* the (stage, names) pairs the assignment left <= right writes into the
\* register; none when the register is not its target
C17_Written(register, left, right) ==
    IF left.type # "Lvalue" THEN {}
    ELSE IF left.var.type = "Identifier"
    THEN IF left.var.name = register.name
         THEN C17_WholeRegister(register, right) ELSE {}
    ELSE IF left.var.type = "Pointer" /\ left.var.var.type = "Identifier"
    THEN IF left.var.var.name # register.name THEN {}
         ELSE IF _evaluate_int(left.var.ptr) # Nothing
         THEN {<<Stage(register.name, _evaluate_int(left.var.ptr)[1]),
                 collect(right)>>}
         ELSE C17_WholeRegister(register, right)
    ELSE {}

\* after holds what before held, and the written names in their stages
C17_Accumulated(before, after, written) ==
    /\ after.name = before.name
    /\ DOMAIN after.drivers =
           (DOMAIN before.drivers) \cup {w[1] : w \in written}
    /\ \A k \in DOMAIN after.drivers :
          after.drivers[k] =
              OldDrivers(before, k)
              \cup UNION {w[2] : w \in {v \in written : v[1] = k}}

\* the step is the assignment left <= right
C17_Assignment(left, right) ==
    (/\ pc = "build"
     /\ module_stack # <<>>
     /\ Len(module_stack') = Len(module_stack)
     /\ clock_stack' = clock_stack
     /\ \/ visit_BlockingSubstitution(left, right)
        \/ visit_NonblockingSubstitution(left, right)) =>
        LET after == module_stack'[Len(module_stack')].registers
        IN  /\ Len(after) = Len(module.registers)
            /\ \A r \in 1..Len(after) :
                  C17_Accumulated(module.registers[r], after[r],
                                  C17_Written(module.registers[r], left, right))

\* no step takes a stage or a name away from a register under construction
C17_NothingRemoved ==
    \A i \in 1..Len(module_stack) :
        i <= Len(module_stack') =>
            \A r \in 1..Len(module_stack[i].registers) :
                /\ r <= Len(module_stack'[i].registers)
                /\ \A k \in DOMAIN module_stack[i].registers[r].drivers :
                      /\ k \in DOMAIN module_stack'[i].registers[r].drivers
                      /\ module_stack[i].registers[r].drivers[k] \subseteq
                             module_stack'[i].registers[r].drivers[k]

\* C17: an assignment adds the identifiers of its right-hand side to the
\* driver set of the stage it writes, so that the set is the union over the
\* assignments to the stage visited so far; it removes and replaces nothing
\* and leaves the other stages and the other registers as they are.
C17_DriverAccumulation ==
    [][/\ C17_NothingRemoved
       /\ \A s \in StatementsDrivers : C17_Assignment(s.left, s.right)]_vars

\* a stage holding the names of two assignments, beside another register
\* with drivers of its own
C17_Witness ==
    /\ module_stack # <<>>
    /\ \E register, other \in RegisterSet(module) :
          /\ register.name = "a"
          /\ "a" \in DOMAIN register.drivers
          /\ register.drivers["a"] = {"b", "d"}
          /\ other.name = "b"
          /\ DOMAIN other.drivers = {"b"}
          /\ other.drivers["b"] = {"a"}

-----------------------------------------------------------------------------
(* C18 *)

\* the sensitivity lists of the Always nodes entered and not yet left,
\* outermost first
RECURSIVE C18_Open(_)
C18_Open(events) ==
    IF events = <<>> THEN <<>>
    ELSE LET before == C18_Open(SubSeq(events, 1, Len(events) - 1))
             event == events[Len(events)]
         IN  IF event.op = "Always" THEN Append(before, event.arg)
             ELSE SubSeq(before, 1, Len(before) - 1)

\* the functional clock of the innermost block around the traversal's
\* position, None outside every block
C18_ScopeClock ==
    LET open == C18_Open(tree)
    IN  IF open = <<>> THEN None ELSE C8_Expected(open[Len(open)])

C18_Scoped ==
    /\ current_clock = C18_ScopeClock
    /\ Len(clock_stack) = Len(C18_Open(tree))
    /\ pc = "done" => clock_stack = <<>>

\* a step gives a register no clock but the one of the scope, and none
\* outside every block
C18_ClockFromScope ==
    \A i \in 1..Len(module_stack) :
        i <= Len(module_stack') =>
            \A r \in 1..Len(module_stack[i].registers) :
                /\ r <= Len(module_stack'[i].registers)
                /\ module_stack'[i].registers[r].clock \in
                       {module_stack[i].registers[r].clock, C18_ScopeClock}
                /\ C18_Open(tree) = <<>> =>
                       module_stack'[i].registers[r].clock =
                           module_stack[i].registers[r].clock

\* C18: at every assignment the current clock is the functional clock of the
\* innermost block around it and None outside every block; leaving a block
\* brings back the clock in force before it was entered, so an assignment
\* after a block, outside any block, sets no register's clock; the clock
\* stack is empty when the traversal ends.
C18_ClockScoping ==
    []C18_Scoped /\ [][C18_ClockFromScope]_vars

\* back in the outer block clocked by clkA after a nested block clocked by
\* clkB, with a register that took its clock there
C18_Witness ==
    /\ Len(tree) = 3
    /\ tree[3].op = "Always_end"
    /\ current_clock = "clkA"
    /\ module_stack # <<>>
    /\ \E register \in RegisterSet(module) : register.clock = "clkB"

====
